---- MODULE Spec2Model ----
(***************************************************************************)
(* Model of the appointment booking engine of medusa-plugin-service:       *)
(* AppointmentService.makeAppointment and the operations it calls          *)
(* (isOrderHaveAppointment, isSlotTimeAvailable, create, update,           *)
(* LocationService.getSlotTime), and AppointmentService.update and delete. *)
(*                                                                         *)
(* Time is counted in minutes since an epoch that is a midnight; a Date is *)
(* an integer number of minutes.  A slot is the Date of its start.         *)
(***************************************************************************)
EXTENDS Integers, Sequences, FiniteSets, TLC

VARIABLES
    appointments,   \* the Appointment table: a sequence, the id is the index
    timeperiods,    \* the CalendarTimeperiod table: a sequence, the id is the index
    events,         \* the events handed to the event bus, in emission order
    calls,          \* the makeAppointment calls in flight, one per caller
    started,        \* number of makeAppointment calls started so far
    overlapped,     \* history: some call started while another was in flight
    vin,            \* input of an operation called directly (SpecValidator,
                    \* SpecAvailability, SpecIsolation, SpecDuplicate)
    vout            \* its outcome; in SpecService the last update or delete call

vars == <<appointments, timeperiods, events, calls, started, overlapped, vin, vout>>

----------------------------------------------------------------------------
(* Bounds of the model *)

\* makeAppointment calls started in one behaviour
MaxCalls == 2

\* Timeperiods configured on the calendars before the first booking
MaxInitPeriods == 2

----------------------------------------------------------------------------
(* Dates *)

MinutesPerDay == 24 * 60

\* h:m on day d (day 0 is the epoch's day)
At(d, h, m) == d * MinutesPerDay + h * 60 + m

\* utils/date-utils formatDate: the calendar-day key of a Date
formatDate(t) == t \div MinutesPerDay

\* utils/date-utils addDay
addDay(t, n) == t + n * MinutesPerDay

----------------------------------------------------------------------------
(* Sequence helpers *)

Range(s) == {s[i] : i \in 1..Len(s)}

RECURSIVE ConcatAll(_)
ConcatAll(ss) == IF Len(ss) = 0 THEN <<>> ELSE Head(ss) \o ConcatAll(Tail(ss))

\* the sequence s with the element at position i removed
RemoveAt(s, i) == [k \in 1..(Len(s) - 1) |-> IF k < i THEN s[k] ELSE s[k + 1]]

\* position of the element the store returns first under ORDER BY from DESC
\* (ties: the order of insertion)
FirstDesc(s) ==
    CHOOSE i \in 1..Len(s) :
        \A k \in 1..Len(s) : s[k].from < s[i].from \/ (s[k].from = s[i].from /\ k >= i)

RECURSIVE OrderFromDesc(_)
OrderFromDesc(s) ==
    IF Len(s) = 0 THEN <<>>
    ELSE LET i == FirstDesc(s) IN <<s[i]>> \o OrderFromDesc(RemoveAt(s, i))

----------------------------------------------------------------------------
(* SlotGrid: utils/date-utils divideTimes *)

\* the slot starts from, from + g, from + 2g, ... that are < to
SlotStarts(from, to, g) ==
    LET n == IF to > from THEN ((to - from) + g - 1) \div g ELSE 0
    IN  [k \in 1..n |-> from + (k - 1) * g]

\* the slot starts grouped by the calendar day they fall on: entries
\* [date, slot_times] in ascending date order
divideTimes(from, to, g) ==
    LET ss == SlotStarts(from, to, g)
        lo == formatDate(ss[1])
        hi == formatDate(ss[Len(ss)])
    IN  IF Len(ss) = 0 THEN <<>>
        ELSE [d \in 1..(hi - lo + 1) |->
                [date |-> lo + d - 1,
                 slot_times |-> SelectSeq(ss, LAMBDA s : formatDate(s) = lo + d - 1)]]

----------------------------------------------------------------------------
(* The static world: calendars, locations, orders *)

\* calendar "cX" does not exist
Calendars == {"c1", "c2"}
CalendarIds == Calendars \cup {"cX"}

\* the one location and the calendars connected to it
Locations == {"l1"}
LocationCalendars(l) == IF l = "l1" THEN <<"c1", "c2">> ELSE <<>>

BlockingTypes == {"breaktime", "blocked", "off"}
TimeperiodTypes == {"working_hour"} \cup BlockingTypes

AppointmentStatus ==
    {"draft", "scheduled", "canceled", "requires_action", "pending", "reschedule",
     "on_progress", "finished"}

----------------------------------------------------------------------------
(* CalendarTimeperiodService.list *)

\* mutant: the list without the calendar_id selector
ListTimeperiodsOfAnyCalendar(tps, calendarId, dateFrom, dateTo, types) ==
    OrderFromDesc(SelectSeq(tps, LAMBDA x :
        /\ x.type \in types
        /\ x.from >= dateFrom /\ x.from <= dateTo
        /\ x.to >= dateFrom /\ x.to <= dateTo))

\* list({calendar_id, from: {gte, lte}, to: {gte, lte}, type}, {order: {from: "DESC"}})
ListTimeperiods(tps, calendarId, dateFrom, dateTo, types) ==
    OrderFromDesc(SelectSeq(tps, LAMBDA x :
        /\ x.calendar_id = calendarId
        /\ x.type \in types
        /\ x.from >= dateFrom /\ x.from <= dateTo
        /\ x.to >= dateFrom /\ x.to <= dateTo))

----------------------------------------------------------------------------
(* LocationService.getSlotTime *)

\* const divideBy = 15
getSlotTimeDivideBy == 15

\* a date-keyed map kept as entries [date, slot_times] in insertion order
HasKey(m, key) == \E i \in 1..Len(m) : m[i].date = key

Lookup(m, key) == m[CHOOSE i \in 1..Len(m) : m[i].date = key].slot_times

\* m[key] = slots
PutKey(m, key, slots) ==
    IF HasKey(m, key)
    THEN [i \in 1..Len(m) |-> IF m[i].date = key THEN [m[i] EXCEPT !.slot_times = slots] ELSE m[i]]
    ELSE Append(m, [date |-> key, slot_times |-> slots])

\* for (const x of workingTimerperiod) workingTimes[formatDate(x.from)] = divideTimes(...)
\* mutant: every working period divided up to and including its end
RECURSIVE WorkingTimesThroughEnd(_, _)
WorkingTimesThroughEnd(list, n) ==
    IF n = 0 THEN <<>>
    ELSE PutKey(WorkingTimesThroughEnd(list, n - 1), formatDate(list[n].from),
                SlotStarts(list[n].from, list[n].to + 1, getSlotTimeDivideBy))

RECURSIVE WorkingTimes(_, _)
WorkingTimes(list, n) ==
    IF n = 0 THEN <<>>
    ELSE PutKey(WorkingTimes(list, n - 1), formatDate(list[n].from),
                SlotStarts(list[n].from, list[n].to, getSlotTimeDivideBy))

\* for (const x of blockedTimerperiod) blockedTimes[formatDate(x.from)].push(...)
RECURSIVE BlockedTimes(_, _)
BlockedTimes(list, n) ==
    IF n = 0 THEN <<>>
    ELSE LET m == BlockedTimes(list, n - 1)
             key == formatDate(list[n].from)
             old == IF HasKey(m, key) THEN Lookup(m, key) ELSE <<>>
         IN  PutKey(m, key, old \o SlotStarts(list[n].from, list[n].to, getSlotTimeDivideBy))

\* the body of the loop over the location's calendars: the entries one
\* calendar contributes to availableTimes
CalendarSlotTime(tps, cx, dateFrom, dateTo) ==
    LET blockedTimerperiod == ListTimeperiods(tps, cx, dateFrom, dateTo, BlockingTypes)
        workingTimerperiod == ListTimeperiods(tps, cx, dateFrom, dateTo, {"working_hour"})
        workingTimes == WorkingTimes(workingTimerperiod, Len(workingTimerperiod))
        blockedTimes == BlockedTimes(blockedTimerperiod, Len(blockedTimerperiod))
    IN  [i \in 1..Len(workingTimes) |->
            LET x == workingTimes[i].date IN
            [date |-> x,
             slot_times |->
                IF ~HasKey(blockedTimes, x) THEN workingTimes[i].slot_times
                ELSE SelectSeq(workingTimes[i].slot_times,
                               LAMBDA item : item \notin Range(Lookup(blockedTimes, x)))]]

\* getSlotTime(locationId, from, to) with from and to given: the entries of
\* every calendar of the location, in the order of location.calendars
getSlotTime(tps, locationId, from, to) ==
    LET dateFrom == from
        dateTo == addDay(to, 1)
        cals == LocationCalendars(locationId)
    IN  ConcatAll([i \in 1..Len(cals) |-> CalendarSlotTime(tps, cals[i], dateFrom, dateTo)])

\* getSlotTime_(calendarId, locationId, from, to), the variant makeAppointment
\* calls: the availability of the one calendar
getSlotTime_(tps, calendarId, locationId, from, to) ==
    LET dateFrom == from
        dateTo == addDay(to, 1)
    IN  CalendarSlotTime(tps, calendarId, dateFrom, dateTo)

----------------------------------------------------------------------------
(* AppointmentService.isSlotTimeAvailable *)

\* const divideBy = 5
isSlotTimeAvailableDivideBy == 5

\* the loop leaving with true after the first day it finds covered
CheckFirstDateEntryOnly(selectedTimeSlots, i, availableSlotTime) ==
    IF i > Len(selectedTimeSlots) THEN "true"
    ELSE LET dateKey == selectedTimeSlots[i].date
             dateTimeSlots == selectedTimeSlots[i].slot_times
             availableSlotTime_ ==
                 SelectSeq(availableSlotTime, LAMBDA slotTime : slotTime.date = dateKey)
         IN  IF Len(availableSlotTime_) = 0 THEN "TypeError"
             ELSE IF \E k \in 1..Len(dateTimeSlots) :
                        dateTimeSlots[k] \notin Range(availableSlotTime_[1].slot_times)
                  THEN "false"
                  ELSE "true"

\* the loop over Object.entries(selectedTimeSlots), from entry i on:
\* "true", "false", or "TypeError" when availableSlotTime_[0] is undefined
RECURSIVE CheckDateEntries(_, _, _)
CheckDateEntries(selectedTimeSlots, i, availableSlotTime) ==
    IF i > Len(selectedTimeSlots) THEN "true"
    ELSE LET dateKey == selectedTimeSlots[i].date
             dateTimeSlots == selectedTimeSlots[i].slot_times
             availableSlotTime_ ==
                 SelectSeq(availableSlotTime, LAMBDA slotTime : slotTime.date = dateKey)
         IN  IF Len(availableSlotTime_) = 0 THEN "TypeError"
             ELSE IF \E k \in 1..Len(dateTimeSlots) :
                        dateTimeSlots[k] \notin Range(availableSlotTime_[1].slot_times)
                  THEN "false"
                  ELSE CheckDateEntries(selectedTimeSlots, i + 1, availableSlotTime)

isSlotTimeAvailable(from, to, availableSlotTime) ==
    CheckDateEntries(divideTimes(from, to, isSlotTimeAvailableDivideBy), 1, availableSlotTime)

----------------------------------------------------------------------------
(* Numbers as makeAppointment computes with them: a value or NaN *)

Num(n) == [nan |-> FALSE, v |-> n]
NaN == [nan |-> TRUE, v |-> 0]

\* a metadata value: absent (undefined) or present
Absent == [present |-> FALSE, v |-> 0]
Meta(n) == [present |-> TRUE, v |-> n]

\* unary plus: +undefined is NaN
ToNumber(m) == IF m.present THEN Num(m.v) ELSE NaN

\* a > 0 (false when a is NaN)
Positive(a) == ~a.nan /\ a.v > 0

Plus(a, b) == IF a.nan \/ b.nan THEN NaN ELSE Num(a.v + b.v)

----------------------------------------------------------------------------
(* Orders and their line items: duration_min of the variant and of the product *)

Orders == {"o1", "o2", "o3", "o4", "o5"}

OrderItems(o) ==
    CASE o = "o1" -> <<[variant |-> Meta(5), product |-> Absent]>>
      [] o = "o2" -> <<[variant |-> Absent, product |-> Meta(5)]>>
      [] o = "o3" -> <<[variant |-> Meta(15), product |-> Meta(10)],
                       [variant |-> Meta(0), product |-> Meta(15)]>>
      [] o = "o5" -> <<[variant |-> Meta(0), product |-> Meta(0)]>>
      [] OTHER    -> <<[variant |-> Absent, product |-> Absent]>>

\* the duration one line item contributes
ItemDurationMin(x) ==
    LET variant_time == x.variant
        product_time == x.product
    IN  IF Positive(ToNumber(variant_time)) THEN ToNumber(variant_time)
        ELSE ToNumber(product_time)

\* totalDurationMin after the first n items
RECURSIVE TotalDurationMin(_, _)
TotalDurationMin(items_list, n) ==
    IF n = 0 THEN Num(0)
    ELSE Plus(TotalDurationMin(items_list, n - 1), ItemDurationMin(items_list[n]))

----------------------------------------------------------------------------
(* The stores *)

Null == 0 - 1

Timeperiod(calendarId, type, from, to, appointmentId) ==
    [calendar_id |-> calendarId, type |-> type, from |-> from, to |-> to,
     appointment_id |-> appointmentId]

\* the Timeperiods an administrator may have configured before the first booking
InitialPeriodPool ==
    << Timeperiod("c1", "working_hour", At(0, 9, 0), At(0, 10, 0), 0),
       Timeperiod("c1", "breaktime", At(0, 8, 45), At(0, 9, 15), 0),
       Timeperiod("c1", "breaktime", At(0, 9, 0), At(0, 9, 15), 0),
       Timeperiod("c1", "working_hour", At(0, 10, 0), At(0, 11, 0), 0) >>

\* the subsequence of s at the positions in idx
RECURSIVE SubSeqAt(_, _, _)
SubSeqAt(s, idx, i) ==
    IF i > Len(s) THEN <<>>
    ELSE (IF i \in idx THEN <<s[i]>> ELSE <<>>) \o SubSeqAt(s, idx, i + 1)

InitialConfigs ==
    {SubSeqAt(InitialPeriodPool, idx, 1) :
        idx \in {x \in SUBSET (1..Len(InitialPeriodPool)) : Cardinality(x) <= MaxInitPeriods}}

\* the slot_time values a caller may ask for
SlotTimes == {At(0, 9, 0), At(0, 10, 0)}

\* every order with a positive duration on every calendar id; the orders
\* without a positive duration (o4, o5) on calendar c1
Requests ==
    [order_id : {"o1", "o2", "o3"}, location_id : Locations, calendar_id : CalendarIds,
     slot_time : SlotTimes]
    \cup [order_id : {"o4", "o5"}, location_id : Locations, calendar_id : {"c1"},
          slot_time : SlotTimes]

----------------------------------------------------------------------------
(* What the calendar's Timeperiods say about a window, minute by minute *)

Inside(x, t) == x.from <= t /\ t < x.to

Overlap(f1, t1, f2, t2) == f1 < t2 /\ f2 < t1

\* [from, to) is a non-empty window of working time of the calendar that no
\* breaktime, blocked or off Timeperiod touches
GenuinelyFree(tps, calendarId, from, to) ==
    /\ from < to
    /\ \A t \in from..(to - 1) :
        /\ \E i \in 1..Len(tps) :
            tps[i].calendar_id = calendarId /\ tps[i].type = "working_hour" /\ Inside(tps[i], t)
        /\ ~\E i \in 1..Len(tps) :
            tps[i].calendar_id = calendarId /\ tps[i].type \in BlockingTypes /\ Inside(tps[i], t)

----------------------------------------------------------------------------
(* The makeAppointment calls *)

Procs == {1, 2}

IdleCall ==
    [pc |-> "idle", order_id |-> "o1", location_id |-> "l1", calendar_id |-> "c1",
     slot_time |-> 0, total |-> Num(0), slot_time_until |-> 0,
     dupChecked |-> FALSE, fetched |-> FALSE, valid |-> "none",
     divideAvail |-> 0, divideValid |-> 0,
     ap |-> 0, tp |-> 0, result |-> "none", returned |-> "none", conc |-> FALSE,
     freeAtStart |-> FALSE, hadScheduledAtStart |-> FALSE]

InFlight(c) == c.pc \notin {"idle", "done"}

Init ==
    /\ appointments = <<>>
    /\ timeperiods \in InitialConfigs
    /\ events = <<>>
    /\ calls = [p \in Procs |-> IdleCall]
    /\ started = 0
    /\ overlapped = FALSE
    /\ vin = <<>>
    /\ vout = "none"

\* a caller invokes makeAppointment(req)
Start(p) ==
    /\ ~InFlight(calls[p])
    /\ started < MaxCalls
    /\ \E req \in Requests :
        LET busy == \E q \in Procs \ {p} : InFlight(calls[q])
            items == OrderItems(req.order_id)
            total == TotalDurationMin(items, Len(items))
        IN  /\ calls' = [q \in Procs |->
                IF q = p
                THEN [IdleCall EXCEPT !.pc = "calendar", !.order_id = req.order_id,
                                      !.location_id = req.location_id,
                                      !.calendar_id = req.calendar_id,
                                      !.slot_time = req.slot_time, !.conc = busy,
                                      \* history: the store as the call finds it
                                      !.freeAtStart =
                                          /\ ~total.nan
                                          /\ GenuinelyFree(timeperiods, req.calendar_id,
                                                req.slot_time, req.slot_time + total.v),
                                      !.hadScheduledAtStart =
                                          \E i \in 1..Len(appointments) :
                                              /\ appointments[i].order_id = req.order_id
                                              /\ appointments[i].status = "scheduled"]
                ELSE IF InFlight(calls[q]) THEN [calls[q] EXCEPT !.conc = TRUE]
                ELSE calls[q]]
            /\ overlapped' = (overlapped \/ busy)
    /\ started' = started + 1
    /\ UNCHANGED <<appointments, timeperiods, events, vin, vout>>

\* the call of p ends by throwing err
Throw(p, err) == calls' = [calls EXCEPT ![p].pc = "done", ![p].result = err]

\* CalendarService.retrieve finds the calendar (it throws NOT_FOUND otherwise)
CalendarExists(calendarId) == calendarId \in Calendars

\* await this.calendar_.retrieve(calendar_id, {})
ValidateCalendar(p) ==
    /\ calls[p].pc = "calendar"
    /\ IF CalendarExists(calls[p].calendar_id)
       THEN calls' = [calls EXCEPT ![p].pc = "duplicate"]
       ELSE Throw(p, "NOT_FOUND calendar")
    /\ UNCHANGED <<appointments, timeperiods, events, started, overlapped, vin, vout>>

\* the default page size of AppointmentService.list
listTake == 50

\* the subsets of S with k elements
RECURSIVE KSubsets(_, _)
KSubsets(S, k) ==
    IF k = 0 THEN {{}}
    ELSE UNION {{T \cup {x} : T \in KSubsets(S \ {x}, k - 1)} : x \in S}

\* list({order_id}) with the default config (take 50, no order): the pages the
\* store may return. Soft-removed rows are not listed; which rows are left
\* out when more than listTake match is up to the store
list(apps, orderId) ==
    LET rows == {i \in 1..Len(apps) : ~apps[i].deleted /\ apps[i].order_id = orderId}
        over == IF Cardinality(rows) > listTake THEN Cardinality(rows) - listTake ELSE 0
    IN  {SubSeqAt(apps, rows \ left, 1) : left \in KSubsets(rows, over)}

\* the values isOrderHaveAppointment(orderId) may return: for each page, whether
\* it counts a scheduled row
isOrderHaveAppointment(apps, orderId) ==
    {LET realCount == Cardinality({i \in 1..Len(appointment) :
                            appointment[i].status = "scheduled"})
     IN  realCount > 0 : appointment \in list(apps, orderId)}

\* the duplicate check placed after the availability fetch
CheckDuplicateAfterFetch(p) ==
    /\ calls[p].pc = "duplicate"
    /\ \E have \in isOrderHaveAppointment(appointments, calls[p].order_id) :
       IF have
       THEN calls' = [calls EXCEPT ![p].pc = "done", ![p].dupChecked = TRUE,
                                   ![p].fetched = TRUE,
                                   ![p].result = "INVALID_DATA order already have appointment"]
       ELSE calls' = [calls EXCEPT ![p].pc = "duration", ![p].dupChecked = TRUE]
    /\ UNCHANGED <<appointments, timeperiods, events, started, overlapped, vin, vout>>

CheckDuplicate(p) ==
    /\ calls[p].pc = "duplicate"
    /\ \E have \in isOrderHaveAppointment(appointments, calls[p].order_id) :
       IF have
       THEN calls' = [calls EXCEPT ![p].pc = "done", ![p].dupChecked = TRUE,
                                   ![p].result = "INVALID_DATA order already have appointment"]
       ELSE calls' = [calls EXCEPT ![p].pc = "duration", ![p].dupChecked = TRUE]
    /\ UNCHANGED <<appointments, timeperiods, events, started, overlapped, vin, vout>>

\* location_.retrieve, order_.retrieve, the sum of the items' durations and
\* slot_time_until
ResolveDuration(p) ==
    /\ calls[p].pc = "duration"
    /\ IF calls[p].location_id \notin Locations
       THEN Throw(p, "NOT_FOUND location")
       ELSE LET items_list == OrderItems(calls[p].order_id)
                totalDurationMin == TotalDurationMin(items_list, Len(items_list))
            IN  calls' = [calls EXCEPT
                    ![p].pc = "slots",
                    ![p].total = totalDurationMin,
                    ![p].slot_time_until = calls[p].slot_time + totalDurationMin.v]
    /\ UNCHANGED <<appointments, timeperiods, events, started, overlapped, vin, vout>>

\* mutant: the draft row written before the validation, and left behind when
\* the validation refuses the window
ValidateAfterDraft(p) ==
    /\ calls[p].pc = "slots"
    /\ LET c == calls[p] IN
       IF c.total.nan
       THEN Throw(p, "DB_ERROR invalid date") /\ UNCHANGED appointments
       ELSE LET today_time_slot ==
                    getSlotTime_(timeperiods, c.calendar_id, c.location_id,
                                 c.slot_time, c.slot_time_until)
                available == isSlotTimeAvailable(c.slot_time, c.slot_time_until, today_time_slot)
            IN  /\ calls' = [calls EXCEPT
                    ![p].fetched = TRUE,
                    ![p].valid = available,
                    ![p].divideAvail = getSlotTimeDivideBy,
                    ![p].divideValid = isSlotTimeAvailableDivideBy,
                    ![p].pc = IF available = "true" THEN "create" ELSE "done",
                    ![p].result = CASE available = "true" -> "none"
                                    [] available = "false" -> "NOT_ALLOWED slot time not available"
                                    [] OTHER -> "TypeError"]
                /\ appointments' =
                    IF available = "true" THEN appointments
                    ELSE Append(appointments,
                            [order_id |-> c.order_id, status |-> "draft",
                             is_confirmed |-> FALSE, from |-> Null, to |-> Null,
                             calendar_timeperiod_id |-> 0, location |-> "none",
                             deleted |-> FALSE])
    /\ UNCHANGED <<timeperiods, events, started, overlapped, vin, vout>>

\* getSlotTime_ over [slot_time, slot_time_until], then isSlotTimeAvailable on
\* its result
FetchAndValidate(p) ==
    /\ calls[p].pc = "slots"
    /\ LET c == calls[p] IN
       IF c.total.nan
       THEN \* slot_time_until is an Invalid Date: the Timeperiod query fails
            Throw(p, "DB_ERROR invalid date")
       ELSE LET today_time_slot ==
                    getSlotTime_(timeperiods, c.calendar_id, c.location_id,
                                 c.slot_time, c.slot_time_until)
                available == isSlotTimeAvailable(c.slot_time, c.slot_time_until, today_time_slot)
            IN  calls' = [calls EXCEPT
                    ![p].fetched = TRUE,
                    ![p].valid = available,
                    ![p].divideAvail = getSlotTimeDivideBy,
                    ![p].divideValid = isSlotTimeAvailableDivideBy,
                    ![p].pc = IF available = "true" THEN "create" ELSE "done",
                    ![p].result = CASE available = "true" -> "none"
                                    [] available = "false" -> "NOT_ALLOWED slot time not available"
                                    [] OTHER -> "TypeError"]
    /\ UNCHANGED <<appointments, timeperiods, events, started, overlapped, vin, vout>>

\* AppointmentService.create: save the row, emit appointment.created
create(apps, appointmentObject) ==
    Append(apps, [order_id |-> appointmentObject.order_id,
                  status |-> appointmentObject.status,
                  is_confirmed |-> appointmentObject.is_confirmed,
                  from |-> Null, to |-> Null,
                  calendar_timeperiod_id |-> 0, location |-> "none",
                  deleted |-> FALSE])

\* const ap = await this.create(dataInput), and the retrieve of the new row
CreateDraft(p) ==
    /\ calls[p].pc = "create"
    /\ LET dataInput == [order_id |-> calls[p].order_id, is_confirmed |-> FALSE,
                         status |-> "draft"]
           id == Len(appointments) + 1
       IN  /\ appointments' = create(appointments, dataInput)
           /\ events' = Append(events, [name |-> "appointment.created", id |-> id])
           /\ calls' = [calls EXCEPT ![p].pc = "timeperiod", ![p].ap = id]
    /\ UNCHANGED <<timeperiods, started, overlapped, vin, vout>>

\* await this.calendarTimeperiod_.create({... type: "blocked" ...})
CreateTimeperiod(p) ==
    /\ calls[p].pc = "timeperiod"
    /\ LET c == calls[p] IN
       /\ timeperiods' = Append(timeperiods,
              Timeperiod(c.calendar_id, "blocked", c.slot_time, c.slot_time_until, c.ap))
       /\ calls' = [calls EXCEPT ![p].pc = "update", ![p].tp = Len(timeperiods) + 1]
    /\ UNCHANGED <<appointments, events, started, overlapped, vin, vout>>

\* mutant: a lookup that also finds soft-removed rows
FoundWithDeleted(apps, id) == id \in 1..Len(apps)

\* appointmentRepo.findOne(id) finds a row (soft-removed rows are not found)
Found(apps, id) == id \in 1..Len(apps) /\ ~apps[id].deleted

\* the keys of an appointment that live in its metadata
MetadataKeys == {"calendar_timeperiod_id", "location"}

\* mutant: metadata replaced by the metadata of the update, not merged
updateReplacingMetadata(apps, id, upd) ==
    [apps EXCEPT ![id] =
        [key \in DOMAIN apps[id] |->
            IF key \in DOMAIN upd THEN upd[key]
            ELSE IF key \in MetadataKeys /\ DOMAIN upd \cap MetadataKeys # {}
                 THEN (IF key = "location" THEN "none" ELSE 0)
                 ELSE apps[id][key]]]

\* mutant: an update that writes the status and drops the other keys
updateStatusOnly(apps, id, upd) ==
    [apps EXCEPT ![id].status = upd.status]

\* AppointmentService.update(id, update): the row after the assignments; a
\* key the update does not give keeps its value (metadata keys are merged
\* into the existing metadata)
update(apps, id, upd) ==
    [apps EXCEPT ![id] =
        [key \in DOMAIN apps[id] |->
            IF key \in DOMAIN upd THEN upd[key] ELSE apps[id][key]]]

\* await this.update(appointment.id, {status: SCHEDULED, ...}), then the
\* retrieve whose result is returned
Promote(p) ==
    /\ calls[p].pc = "update"
    /\ LET c == calls[p] IN
       IF Found(appointments, c.ap)
       THEN /\ appointments' = update(appointments, c.ap,
                   [status |-> "scheduled", from |-> c.slot_time, to |-> c.slot_time_until,
                    calendar_timeperiod_id |-> c.tp, location |-> c.location_id])
            /\ events' = Append(events, [name |-> "appointment.updated", id |-> c.ap])
            /\ calls' = [calls EXCEPT ![p].pc = "done", ![p].result = "ok",
                                      ![p].returned = appointments'[c.ap].status]
       ELSE \* this.retrieve inside update does not find the row
            /\ Throw(p, "NOT_FOUND appointment")
            /\ UNCHANGED <<appointments, events>>
    /\ UNCHANGED <<timeperiods, started, overlapped, vin, vout>>

\* one of the three writes fails: the call ends with the store's error, and
\* what earlier writes committed stays
FailWrite(p) ==
    /\ calls[p].pc \in {"create", "timeperiod", "update"}
    /\ Throw(p, "DB_ERROR write failed")
    /\ UNCHANGED <<appointments, timeperiods, events, started, overlapped, vin, vout>>

Step(p) ==
    \/ Start(p)
    \/ ValidateCalendar(p)
    \/ CheckDuplicate(p)
    \/ ResolveDuration(p)
    \/ FetchAndValidate(p)
    \/ CreateDraft(p)
    \/ CreateTimeperiod(p)
    \/ Promote(p)

Next == \E p \in Procs : Step(p)

Spec == Init /\ [][Next]_vars

\* the same program on a store whose writes may fail
NextFault == \E p \in Procs : Step(p) \/ FailWrite(p)

SpecFault == Init /\ [][NextFault]_vars

\* an Appointment row without window and without metadata
AppointmentRow(orderId, status) ==
    [order_id |-> orderId, status |-> status, is_confirmed |-> FALSE,
     from |-> Null, to |-> Null, calendar_timeperiod_id |-> 0, location |-> "none",
     deleted |-> FALSE]

----------------------------------------------------------------------------
(* AppointmentService.update and delete called by other callers, next to   *)
(* the bookings                                                            *)

\* events in the log beyond which no further update is started
MaxEvents == 4

\* the status values such an update asks for
UpdateStatuses == {"scheduled", "canceled", "finished"}

\* AppointmentService.update(appointmentId, {status}): retrieve, assign, save,
\* emit appointment.updated
UpdateStatus(appointmentId, status) ==
    /\ Len(events) < MaxEvents
    /\ Found(appointments, appointmentId)
    /\ appointments' = update(appointments, appointmentId, [status |-> status])
    /\ events' = Append(events, [name |-> "appointment.updated", id |-> appointmentId])
    /\ UNCHANGED <<timeperiods, calls, started, overlapped, vin, vout>>

\* appointmentRepo.softRemove(appointment)
softRemove(apps, id) == [apps EXCEPT ![id].deleted = TRUE]

\* AppointmentService.delete(appointmentId) of a row that findOne finds:
\* softRemove, emit appointment.deleted
DeleteAppointment(appointmentId) ==
    /\ Len(events) < MaxEvents
    /\ Found(appointments, appointmentId)
    /\ appointments' = softRemove(appointments, appointmentId)
    /\ events' = Append(events, [name |-> "appointment.deleted", id |-> appointmentId])
    /\ UNCHANGED <<timeperiods, calls, started, overlapped, vin, vout>>

NextAdmin ==
    \/ \E p \in Procs : Step(p)
    \/ \E appointmentId \in 1..MaxCalls, status \in UpdateStatuses :
        UpdateStatus(appointmentId, status)
    \/ \E appointmentId \in 1..MaxCalls : DeleteAppointment(appointmentId)

SpecAdmin == Init /\ [][NextAdmin]_vars

----------------------------------------------------------------------------
(* AppointmentService.update and delete called directly, on a small store *)

\* an appointment as makeAppointment leaves it: scheduled, with its window,
\* its Timeperiod id and the location in metadata
BookedRow(orderId) ==
    [AppointmentRow(orderId, "scheduled") EXCEPT
        !.from = At(0, 9, 0), !.to = At(0, 9, 5),
        !.calendar_timeperiod_id = 1, !.location = "l1"]

ServiceRows ==
    { BookedRow("o1"),
      AppointmentRow("o2", "draft"),
      [BookedRow("o3") EXCEPT !.deleted = TRUE] }

\* the stores: one or two appointments
ServiceStores ==
    {<<a>> : a \in ServiceRows} \cup {<<a, b>> : a \in ServiceRows, b \in ServiceRows}

\* the ids a caller passes: those of the store and one that names nothing
ServiceIds == 1..3

\* the update objects a caller passes: only the keys that are not undefined
ServiceUpdates ==
    { [status |-> "canceled"],
      [status |-> "finished", is_confirmed |-> TRUE],
      [from |-> At(0, 10, 0), to |-> At(0, 10, 5)],
      [calendar_timeperiod_id |-> 2],
      [status |-> "scheduled", location |-> "l2"] }

InitService ==
    /\ appointments \in ServiceStores
    /\ timeperiods = <<Timeperiod("c1", "blocked", At(0, 9, 0), At(0, 9, 5), 1)>>
    /\ events = <<>>
    /\ calls = [p \in Procs |-> IdleCall]
    /\ started = 0
    /\ overlapped = FALSE
    /\ vin = <<>>
    /\ vout = [op |-> "none", id |-> 0, upd |-> [status |-> "draft"], found |-> FALSE,
               result |-> "none"]

\* AppointmentService.update(appointmentId, update): retrieve (NOT_FOUND when
\* the row is not found), assign, save, emit appointment.updated
CallUpdate(appointmentId, upd) ==
    /\ Len(events) < MaxEvents
    /\ IF Found(appointments, appointmentId)
       THEN /\ appointments' = update(appointments, appointmentId, upd)
            /\ events' = Append(events, [name |-> "appointment.updated", id |-> appointmentId])
            /\ vout' = [op |-> "update", id |-> appointmentId, upd |-> upd,
                        found |-> TRUE, result |-> "ok"]
       ELSE /\ vout' = [op |-> "update", id |-> appointmentId, upd |-> upd,
                        found |-> FALSE, result |-> "NOT_FOUND"]
            /\ UNCHANGED <<appointments, events>>
    /\ UNCHANGED <<timeperiods, calls, started, overlapped, vin>>

\* AppointmentService.delete(appointmentId): findOne, return when nothing is
\* found, else softRemove and emit appointment.deleted
CallDelete(appointmentId) ==
    /\ Len(events) < MaxEvents
    /\ IF Found(appointments, appointmentId)
       THEN /\ appointments' = softRemove(appointments, appointmentId)
            /\ events' = Append(events, [name |-> "appointment.deleted", id |-> appointmentId])
       ELSE UNCHANGED <<appointments, events>>
    /\ vout' = [op |-> "delete", id |-> appointmentId, upd |-> [status |-> "draft"],
                found |-> Found(appointments, appointmentId), result |-> "ok"]
    /\ UNCHANGED <<timeperiods, calls, started, overlapped, vin>>

NextService ==
    \/ \E appointmentId \in ServiceIds, upd \in ServiceUpdates : CallUpdate(appointmentId, upd)
    \/ \E appointmentId \in ServiceIds : CallDelete(appointmentId)

SpecService == InitService /\ [][NextService]_vars

----------------------------------------------------------------------------
(* Fetch and validation of one window, with Timeperiods on two calendars *)

IsolationPeriodPool ==
    << Timeperiod("c1", "working_hour", At(0, 9, 0), At(0, 10, 0), 0),
       Timeperiod("c1", "breaktime", At(0, 9, 0), At(0, 9, 15), 0),
       Timeperiod("c2", "working_hour", At(0, 9, 0), At(0, 10, 0), 0),
       Timeperiod("c2", "breaktime", At(0, 9, 0), At(0, 9, 15), 0) >>

IsolationInputs ==
    {[tps |-> SubSeqAt(IsolationPeriodPool, idx, 1), calendar_id |-> c,
      from |-> At(0, 9, 0), to |-> At(0, 9, 0) + d] :
        idx \in SUBSET (1..Len(IsolationPeriodPool)), c \in Calendars, d \in {5, 30}}

InitIsolation ==
    /\ appointments = <<>>
    /\ timeperiods = <<>>
    /\ events = <<>>
    /\ calls = [p \in Procs |-> IdleCall]
    /\ started = 0
    /\ overlapped = FALSE
    /\ vin \in IsolationInputs
    /\ vout = [done |-> FALSE, availability |-> <<>>, valid |-> "none"]

\* getSlotTime_ over the window, then isSlotTimeAvailable on its result
CallFetchAndValidate ==
    /\ ~vout.done
    /\ LET today_time_slot == getSlotTime_(vin.tps, vin.calendar_id, "l1", vin.from, vin.to)
       IN  vout' = [done |-> TRUE, availability |-> today_time_slot,
                    valid |-> isSlotTimeAvailable(vin.from, vin.to, today_time_slot)]
    /\ UNCHANGED <<appointments, timeperiods, events, calls, started, overlapped, vin>>

NextIsolation == CallFetchAndValidate

SpecIsolation == InitIsolation /\ [][NextIsolation]_vars

----------------------------------------------------------------------------
(* isOrderHaveAppointment called directly, on stores with many appointments *)

\* how many appointments order o1 has in the store
DuplicateStoreSizes == {0, 1, 2, 3, listTake, listTake + 1}

\* n appointments of order o1, the one at position scheduledAt scheduled (none
\* when 0) and the others in status other; then, if asked, a scheduled
\* appointment of order o2
DuplicateStore(n, scheduledAt, other, withOtherOrder) ==
    [i \in 1..n |-> AppointmentRow("o1", IF i = scheduledAt THEN "scheduled" ELSE other)]
        \o (IF withOtherOrder THEN <<AppointmentRow("o2", "scheduled")>> ELSE <<>>)

DuplicateInputs ==
    {[apps |-> DuplicateStore(n, at, other, w), order_id |-> "o1"] :
        n \in DuplicateStoreSizes, at \in 0..(listTake + 1),
        other \in {"draft", "canceled", "finished"}, w \in BOOLEAN}

InitDuplicate ==
    /\ appointments = <<>>
    /\ timeperiods = <<>>
    /\ events = <<>>
    /\ calls = [p \in Procs |-> IdleCall]
    /\ started = 0
    /\ overlapped = FALSE
    /\ vin \in DuplicateInputs
    /\ vout = [done |-> FALSE, result |-> FALSE]

CallDuplicateCheck ==
    /\ ~vout.done
    /\ \E have \in isOrderHaveAppointment(vin.apps, vin.order_id) :
        vout' = [done |-> TRUE, result |-> have]
    /\ UNCHANGED <<appointments, timeperiods, events, calls, started, overlapped, vin>>

NextDuplicate == CallDuplicateCheck

SpecDuplicate == InitDuplicate /\ [][NextDuplicate]_vars

----------------------------------------------------------------------------
(* isSlotTimeAvailable called directly, on windows around a midnight *)

ValidatorFroms == {At(0, 23, 50), At(0, 23, 55)}
ValidatorDurations == {5, 10, 15}
ValidatorGrid(d) ==
    IF d = 0 THEN {At(0, 23, 50), At(0, 23, 55)} ELSE {At(1, 0, 0), At(1, 0, 5)}

\* a set of slots as the ascending sequence getSlotTime would list
RECURSIVE AscSeq(_)
AscSeq(S) ==
    IF S = {} THEN <<>>
    ELSE LET m == CHOOSE x \in S : \A y \in S : x <= y IN <<m>> \o AscSeq(S \ {m})

\* availability lists with at most one entry per day
ValidatorDayEntries(d) ==
    {<<>>} \cup {<<[date |-> d, slot_times |-> AscSeq(S)]>> : S \in SUBSET ValidatorGrid(d)}

\* working 09:00-17:00 minus breaktime 12:00-13:00
LunchBreakAvailability ==
    CalendarSlotTime(<< Timeperiod("c1", "working_hour", At(0, 9, 0), At(0, 17, 0), 0),
                        Timeperiod("c1", "breaktime", At(0, 12, 0), At(0, 13, 0), 0) >>,
                     "c1", At(0, 0, 0), At(1, 0, 0))

LunchBreakInput ==
    [from |-> At(0, 11, 45), to |-> At(0, 12, 15), availability |-> LunchBreakAvailability]

ValidatorInputs ==
    {[from |-> f, to |-> f + d, availability |-> a0 \o a1] :
        f \in ValidatorFroms, d \in ValidatorDurations,
        a0 \in ValidatorDayEntries(0), a1 \in ValidatorDayEntries(1)}
    \cup {LunchBreakInput}

InitValidator ==
    /\ appointments = <<>>
    /\ timeperiods = <<>>
    /\ events = <<>>
    /\ calls = [p \in Procs |-> IdleCall]
    /\ started = 0
    /\ overlapped = FALSE
    /\ vin \in ValidatorInputs
    /\ vout = "none"

CallValidator ==
    /\ vout = "none"
    /\ vout' = isSlotTimeAvailable(vin.from, vin.to, vin.availability)
    /\ UNCHANGED <<appointments, timeperiods, events, calls, started, overlapped, vin>>

NextValidator == CallValidator

SpecValidator == InitValidator /\ [][NextValidator]_vars

----------------------------------------------------------------------------
(* Properties *)

Done(c) == c.pc = "done"

Scheduled(c) ==
    /\ Done(c) /\ c.result = "ok" /\ c.returned = "scheduled"
    /\ appointments[c.ap].status = "scheduled"

SlotUnavailable(c) == Done(c) /\ c.result = "NOT_ALLOWED slot time not available"

WindowsOverlap(c, d) ==
    Overlap(c.slot_time, c.slot_time_until, d.slot_time, d.slot_time_until)

\* two finished calls that ran concurrently, for different orders, on the
\* same calendar, with overlapping windows
ConcurrentOverlapping(p, q) ==
    /\ p # q
    /\ Done(calls[p]) /\ Done(calls[q])
    /\ calls[p].conc /\ calls[q].conc
    /\ calls[p].order_id # calls[q].order_id
    /\ calls[p].calendar_id = calls[q].calendar_id
    /\ ~calls[p].total.nan /\ ~calls[q].total.nan
    /\ calls[p].fetched /\ calls[q].fetched
    /\ WindowsOverlap(calls[p], calls[q])

\* C1: of two concurrent makeAppointment calls for different orders on the
\* same calendar with overlapping windows, at most one ends scheduled, and
\* when one does the other ends with the slot-unavailable error
C1_AtMostOneScheduled ==
    \A p, q \in Procs :
        ConcurrentOverlapping(p, q) /\ Scheduled(calls[p]) => SlotUnavailable(calls[q])

\* two finished calls that ran concurrently on the same calendar with the
\* same window, which was working time free of blocking Timeperiods when
\* they started
ConcurrentSameFreeWindow(p, q) ==
    /\ p # q
    /\ Done(calls[p]) /\ Done(calls[q])
    /\ calls[p].conc /\ calls[q].conc
    /\ calls[p].calendar_id = calls[q].calendar_id
    /\ calls[p].calendar_id \in Calendars
    /\ calls[p].slot_time = calls[q].slot_time
    /\ calls[p].total = calls[q].total
    /\ calls[p].freeAtStart /\ calls[q].freeAtStart
    /\ ~calls[p].hadScheduledAtStart /\ ~calls[q].hadScheduledAtStart

\* C2: two concurrent makeAppointment calls on the same calendar with the
\* same window, free before either starts, are never both rejected
C2_NotBothRejected ==
    \A p, q \in Procs :
        ConcurrentSameFreeWindow(p, q) => Scheduled(calls[p]) \/ Scheduled(calls[q])

ScheduledOf(o) ==
    {i \in 1..Len(appointments) :
        /\ ~appointments[i].deleted
        /\ appointments[i].order_id = o
        /\ appointments[i].status = "scheduled"}

\* C3: in every reachable state each order has at most one Appointment with
\* status scheduled
C3_OneScheduledPerOrder == \A o \in Orders : Cardinality(ScheduledOf(o)) <= 1

\* the store holds nothing of the call c: no Appointment it created, no
\* Timeperiod tagged with one
NothingLeftBehind(c) ==
    /\ c.ap = 0
    /\ c.tp = 0
    /\ \A i \in 1..Len(appointments) : appointments[i].status # "draft"
    /\ \A i \in 1..Len(timeperiods) :
        timeperiods[i].appointment_id # 0 =>
            appointments[timeperiods[i].appointment_id].status = "scheduled"

\* C4: when one of the three writes of the Persist step fails, then once no
\* call is in flight the store holds neither a draft Appointment nor a blocked
\* Timeperiod whose appointment is not scheduled
C4_AllOrNothing ==
    (\A q \in Procs : ~InFlight(calls[q])) =>
        \A p \in Procs :
            Done(calls[p]) /\ calls[p].result = "DB_ERROR write failed"
                => NothingLeftBehind(calls[p])

BookedPeriods == {i \in 1..Len(timeperiods) : timeperiods[i].appointment_id # 0}

\* the Timeperiod i made by a booking collides with nothing on its calendar
\* and lies in working time
BookedPeriodIsClean(i) ==
    LET x == timeperiods[i] IN
    /\ \A k \in BookedPeriods \ {i} :
        timeperiods[k].calendar_id = x.calendar_id
            => ~Overlap(x.from, x.to, timeperiods[k].from, timeperiods[k].to)
    /\ \A k \in 1..Len(timeperiods) :
        /\ k \notin BookedPeriods
        /\ timeperiods[k].calendar_id = x.calendar_id
        /\ timeperiods[k].type \in BlockingTypes
        => ~Overlap(x.from, x.to, timeperiods[k].from, timeperiods[k].to)
    /\ \A t \in x.from..(x.to - 1) :
        \E k \in 1..Len(timeperiods) :
            /\ timeperiods[k].calendar_id = x.calendar_id
            /\ timeperiods[k].type = "working_hour"
            /\ Inside(timeperiods[k], t)

\* C5: after makeAppointment calls run one after another, no blocked
\* Timeperiod made by a booking overlaps another one, or a breaktime, blocked
\* or off Timeperiod of its calendar, or lies outside its working hours
C5_SequentialBookingsCollideWithNothing ==
    ~overlapped /\ (\A p \in Procs : ~InFlight(calls[p]))
        => \A i \in BookedPeriods : BookedPeriodIsClean(i)

\* the call c returned the Appointment the end-to-end scenario describes
BookedAsAsked(c) ==
    /\ Scheduled(c)
    /\ appointments[c.ap].from = c.slot_time
    /\ appointments[c.ap].to = c.slot_time + c.total.v
    /\ Cardinality({i \in 1..Len(timeperiods) :
            /\ timeperiods[i].calendar_id = c.calendar_id
            /\ timeperiods[i].type = "blocked"
            /\ timeperiods[i].appointment_id = c.ap
            /\ timeperiods[i].from = c.slot_time
            /\ timeperiods[i].to = c.slot_time + c.total.v}) = 1

\* C6: a call (run alone) for an existing calendar, an order without a
\* scheduled appointment and a window wholly inside working hours with no
\* blocking interval ends with the scheduled Appointment and its one blocked
\* Timeperiod
C6_FreeWindowIsBooked ==
    \A p \in Procs :
        /\ Done(calls[p])
        /\ ~calls[p].conc
        /\ calls[p].calendar_id \in Calendars
        /\ calls[p].freeAtStart
        /\ ~calls[p].hadScheduledAtStart
        => BookedAsAsked(calls[p])

\* C7: for every booking request that reaches validation, the granularity
\* the availability was computed with is the granularity the requested
\* window is discretized with
C7_SameGranularity ==
    \A p \in Procs : calls[p].fetched => calls[p].divideAvail = calls[p].divideValid

\* the error of the duplicate-booking check
Conflict == "INVALID_DATA order already have appointment"

\* the order of the checks, as the state of every call shows it
ChecksInOrder ==
    \A p \in Procs :
        LET c == calls[p] IN
        /\ c.dupChecked => c.calendar_id \in Calendars
        /\ c.fetched => c.dupChecked /\ c.result # Conflict
        /\ c.result = Conflict => c.dupChecked /\ ~c.fetched /\ c.ap = 0
        /\ c.result = "NOT_FOUND calendar" => ~c.dupChecked /\ ~c.fetched /\ c.ap = 0

\* a call at the calendar check with a missing calendar, or at the duplicate
\* check with an order that has a scheduled appointment, is rejected by its
\* next step with NotFound, Conflict
RejectedAtTheCheck ==
    \A p \in Procs :
        /\ calls[p].pc = "calendar" /\ calls[p].calendar_id \notin Calendars
           /\ calls'[p].pc # "calendar"
           => calls'[p].pc = "done" /\ calls'[p].result = "NOT_FOUND calendar"
        /\ calls[p].pc = "duplicate" /\ ScheduledOf(calls[p].order_id) # {}
           /\ calls'[p].pc # "duplicate"
           => calls'[p].pc = "done" /\ calls'[p].result = Conflict
                /\ ~calls'[p].fetched

\* C8: makeAppointment checks the calendar, then the duplicate booking, then
\* the availability: an order with a scheduled Appointment is rejected with
\* Conflict before availability is fetched, a missing calendar with NotFound
\* before the duplicate check
C8_CheckOrder == []ChecksInOrder /\ [][RejectedAtTheCheck]_vars

\* a second request for an order that was booked was rejected with Conflict
C8_Witness ==
    \E p, q \in Procs :
        /\ p # q
        /\ Scheduled(calls[q])
        /\ calls[p].order_id = calls[q].order_id
        /\ Done(calls[p]) /\ calls[p].result = Conflict /\ ~calls[p].fetched

\* the days the window of a validator call spans
SpannedDays(in) == {e.date : e \in Range(divideTimes(in.from, in.to, isSlotTimeAvailableDivideBy))}

DayHasEntry(in, d) == \E k \in 1..Len(in.availability) : in.availability[k].date = d

\* C9: isSlotTimeAvailable returns false when a day the window spans has no
\* entry in the availability list
C9_MissingDayIsFalse ==
    /\ vout # "none"
    /\ \E d \in SpannedDays(vin) : ~DayHasEntry(vin, d)
    => vout = "false"

\* the free slots availability lists for day d
FreeSlots(in, d) ==
    UNION {Range(in.availability[k].slot_times) :
            k \in {j \in 1..Len(in.availability) : in.availability[j].date = d}}

\* every slot start of the window is a free slot of its day
Covered(in) ==
    \A s \in Range(SlotStarts(in.from, in.to, isSlotTimeAvailableDivideBy)) :
        s \in FreeSlots(in, formatDate(s))

\* C10: isSlotTimeAvailable returns true exactly when every slot start of
\* [from, to), on every day the window spans, is a free slot of that day; the
\* window 11:45-12:15 against working 09:00-17:00 minus 12:00-13:00 is false
C10_TrueIffCovered ==
    vout # "none" =>
        /\ vout = "true" <=> Covered(vin)
        /\ vin = LunchBreakInput => vout = "false"

\* a window over midnight that is covered on both days was found available
C10_Witness ==
    /\ vout = "true"
    /\ Cardinality(SpannedDays(vin)) = 2

----------------------------------------------------------------------------
(* The availability computation called directly, on one calendar *)

\* Timeperiods in one availability input
MaxAvailPeriods == 3

AvailabilityPeriodPool ==
    << Timeperiod("c1", "working_hour", At(0, 9, 0), At(0, 17, 0), 0),
       Timeperiod("c1", "breaktime", At(0, 12, 0), At(0, 13, 0), 0),
       Timeperiod("c1", "working_hour", At(0, 18, 0), At(0, 19, 0), 0),
       Timeperiod("c1", "blocked", At(0, 23, 0), At(1, 1, 0), 0),
       Timeperiod("c1", "working_hour", At(1, 0, 0), At(1, 2, 0), 0) >>

AvailabilityConfigs ==
    {SubSeqAt(AvailabilityPeriodPool, idx, 1) :
        idx \in {x \in SUBSET (1..Len(AvailabilityPeriodPool)) :
                    Cardinality(x) <= MaxAvailPeriods}}

\* the query windows [from, to]
AvailabilityWindows ==
    { [from |-> At(0, 0, 0), to |-> At(1, 0, 0)],
      [from |-> At(0, 0, 0), to |-> At(0, 12, 0)],
      [from |-> At(0, 10, 0), to |-> At(0, 11, 0)] }

AvailabilityInputs ==
    {[tps |-> c, calendar_id |-> "c1", from |-> w.from, to |-> w.to] :
        c \in AvailabilityConfigs, w \in AvailabilityWindows}

InitAvailability ==
    /\ appointments = <<>>
    /\ timeperiods = <<>>
    /\ events = <<>>
    /\ calls = [p \in Procs |-> IdleCall]
    /\ started = 0
    /\ overlapped = FALSE
    /\ vin \in AvailabilityInputs
    /\ vout = [done |-> FALSE, availability |-> <<>>]

CallAvailability ==
    /\ ~vout.done
    /\ vout' = [done |-> TRUE,
                availability |-> getSlotTime_(vin.tps, vin.calendar_id, "l1", vin.from, vin.to)]
    /\ UNCHANGED <<appointments, timeperiods, events, calls, started, overlapped, vin>>

NextAvailability == CallAvailability

SpecAvailability == InitAvailability /\ [][NextAvailability]_vars

\* the slots the result lists as free, over all its entries
FreeSlotsReturned == UNION {Range(vout.availability[k].slot_times) : k \in 1..Len(vout.availability)}

PeriodsOf(types) ==
    {i \in 1..Len(vin.tps) : vin.tps[i].calendar_id = vin.calendar_id /\ vin.tps[i].type \in types}

InsideSome(types, s) == \E i \in PeriodsOf(types) : Inside(vin.tps[i], s)

LunchBreakConfig ==
    << Timeperiod("c1", "working_hour", At(0, 9, 0), At(0, 17, 0), 0),
       Timeperiod("c1", "breaktime", At(0, 12, 0), At(0, 13, 0), 0) >>

\* C11: every slot the availability computation returns as free lies inside
\* a working_hour Timeperiod of the calendar and inside no breaktime, blocked
\* or off Timeperiod of it; working 09:00-17:00 minus 12:00-13:00 at 15
\* minutes gives the grid of the working hours without 12:00 .. 12:45
C11_FreeSlotsAreWorkingAndUnblocked ==
    vout.done =>
        /\ \A s \in FreeSlotsReturned :
            InsideSome({"working_hour"}, s) /\ ~InsideSome(BlockingTypes, s)
        /\ vin.tps = LunchBreakConfig /\ vin.from = At(0, 0, 0) =>
            FreeSlotsReturned =
                {At(0, 9, 0) + 15 * k : k \in 0..31}
                    \ {At(0, 12, 0), At(0, 12, 15), At(0, 12, 30), At(0, 12, 45)}

\* the free slots the result lists for day d
FreeSlotsOfDay(d) ==
    UNION {Range(vout.availability[k].slot_times) :
            k \in {j \in 1..Len(vout.availability) : vout.availability[j].date = d}}

\* C12: with two or more working_hour Timeperiods on one day (and nothing
\* blocking), the day's slots are the union of the slots of all of them
C12_WorkingSlotsAreTheUnion ==
    vout.done /\ PeriodsOf(BlockingTypes) = {} /\ vin.from = At(0, 0, 0) /\ vin.to = At(1, 0, 0) =>
        \A d \in {formatDate(vin.tps[i].from) : i \in PeriodsOf({"working_hour"})} :
            FreeSlotsOfDay(d) =
                UNION {Range(SlotStarts(vin.tps[i].from, vin.tps[i].to, getSlotTimeDivideBy)) :
                        i \in {j \in PeriodsOf({"working_hour"}) :
                                formatDate(vin.tps[j].from) = d}}

\* the Timeperiod x intersects the query window
IntersectsWindow(x) == x.from <= vin.to /\ x.to >= vin.from

\* the only working_hour Timeperiod that starts on its day
AloneOnItsDay(i) ==
    \A j \in PeriodsOf({"working_hour"}) :
        formatDate(vin.tps[j].from) = formatDate(vin.tps[i].from) => j = i

\* C13: every working_hour Timeperiod that intersects the query window counts
\* (its unblocked slots inside the window are free), and so does every
\* blocking Timeperiod within one day that intersects it (no slot inside it
\* is free), also when the period starts before windowFrom or ends after
\* windowTo
C13_IntersectingPeriodsCount ==
    vout.done =>
        /\ \A i \in PeriodsOf({"working_hour"}) :
            IntersectsWindow(vin.tps[i]) /\ AloneOnItsDay(i) =>
                \A s \in Range(SlotStarts(vin.tps[i].from, vin.tps[i].to, getSlotTimeDivideBy)) :
                    vin.from <= s /\ s <= vin.to /\ ~InsideSome(BlockingTypes, s)
                        => s \in FreeSlotsReturned
        /\ \A i \in PeriodsOf(BlockingTypes) :
            IntersectsWindow(vin.tps[i])
                /\ formatDate(vin.tps[i].from) = formatDate(vin.tps[i].to) =>
                    \A s \in FreeSlotsReturned : ~Inside(vin.tps[i], s)

\* the input of the grid example: working 09:00-17:00 alone, day 0 asked
GridExampleAsked ==
    /\ vout.done
    /\ vin.tps = <<Timeperiod("c1", "working_hour", At(0, 9, 0), At(0, 17, 0), 0)>>
    /\ vin.from = At(0, 0, 0)

\* the one entry the grid example returns lists exactly 09:00, 09:15, ..., 16:45
GridExampleSlots ==
    /\ Len(vout.availability) = 1
    /\ Range(vout.availability[1].slot_times) = {At(0, 9, 0) + 15 * k : k \in 0..31}
    /\ \A k \in 1..Len(vout.availability[1].slot_times) :
        /\ vout.availability[1].slot_times[k] < At(0, 17, 0)
        /\ k > 1 => vout.availability[1].slot_times[k - 1] < vout.availability[1].slot_times[k]

\* C19 as stated: discretizing 09:00-17:00 at 15 minutes emits exactly
\* 09:00, 09:15, ..., 16:45, which is 33 entries, none at or after 17:00
C19_GridExampleHas33Entries ==
    GridExampleAsked => GridExampleSlots /\ Len(vout.availability[1].slot_times) = 33

\* C19 amended: discretizing 09:00-17:00 at 15 minutes emits exactly
\* 09:00, 09:15, ..., 16:45, which is 32 entries, none at or after 17:00
C19_GridExampleHas32Entries ==
    GridExampleAsked => GridExampleSlots /\ Len(vout.availability[1].slot_times) = 32

C19_Witness ==
    GridExampleAsked /\ Len(vout.availability) = 1 /\ vout.availability[1].date = 0

----------------------------------------------------------------------------
(* Duration and window of a booking *)

\* the call has computed its total duration
DurationResolved(c) == c.pc = "slots" \/ c.fetched \/ c.result = "DB_ERROR invalid date"

\* the days the window [slot_time, slot_time_until] touches
TouchedDays(c) == formatDate(c.slot_time)..formatDate(c.slot_time_until)

HasWorkingHours(calendarId, d) ==
    \E i \in 1..Len(timeperiods) :
        /\ timeperiods[i].calendar_id = calendarId
        /\ timeperiods[i].type = "working_hour"
        /\ formatDate(timeperiods[i].from) = d

\* C14: a day without a working_hour Timeperiod is never treated as open: no
\* booking whose window touches such a day reaches status scheduled
C14_NoBookingOnClosedDay ==
    \A p \in Procs :
        Scheduled(calls[p]) =>
            \A d \in TouchedDays(calls[p]) : HasWorkingHours(calls[p].calendar_id, d)

\* the duration the specification gives one line item
ItemDurationAsSpecified(x) ==
    IF x.variant.present /\ x.variant.v > 0 THEN x.variant.v
    ELSE IF x.product.present THEN x.product.v
    ELSE 0

RECURSIVE TotalAsSpecified(_, _)
TotalAsSpecified(items_list, n) ==
    IF n = 0 THEN 0
    ELSE TotalAsSpecified(items_list, n - 1) + ItemDurationAsSpecified(items_list[n])

\* C15: the total duration is the sum over the line items of the variant
\* duration_min when present and positive, else the product duration_min,
\* else 0 when both are absent; it is always a non-negative number
C15_TotalDurationIsTheSum ==
    \A p \in Procs :
        DurationResolved(calls[p]) =>
            LET items_list == OrderItems(calls[p].order_id) IN
            /\ ~calls[p].total.nan
            /\ calls[p].total.v >= 0
            /\ calls[p].total.v = TotalAsSpecified(items_list, Len(items_list))

\* slot_time_until <= slot_time
MalformedWindow(c) == DurationResolved(c) /\ ~c.total.nan /\ c.slot_time_until <= c.slot_time

\* C16: a booking whose resolved window is malformed (slot_time_until <=
\* slot_time) is rejected: no Appointment and no Timeperiod is created for
\* it and it never reaches status scheduled
C16_MalformedWindowIsRejected ==
    \A p \in Procs :
        MalformedWindow(calls[p]) =>
            /\ calls[p].ap = 0
            /\ calls[p].tp = 0
            /\ Done(calls[p]) => calls[p].result \notin {"ok", "none"}

----------------------------------------------------------------------------
(* Events and errors of a booking *)

\* positions in the event log of the events with this name for appointment id
EventsOf(name, id) == {k \in 1..Len(events) : events[k].name = name /\ events[k].id = id}

\* the three writes of the booking of appointment id are committed
BookingCommitted(id) ==
    /\ appointments[id].status = "scheduled"
    /\ appointments[id].calendar_timeperiod_id # 0
    /\ \E i \in 1..Len(timeperiods) : timeperiods[i].appointment_id = id

\* C17: a successful makeAppointment leaves, for its appointment, exactly one
\* appointment.created followed by exactly one appointment.updated, and no
\* event of a booking is in the log before the booking's writes are committed
C17_EventsAfterCommit ==
    /\ \A p \in Procs :
        Scheduled(calls[p]) =>
            /\ Cardinality(EventsOf("appointment.created", calls[p].ap)) = 1
            /\ Cardinality(EventsOf("appointment.updated", calls[p].ap)) = 1
            /\ \A k \in EventsOf("appointment.created", calls[p].ap) :
                \A l \in EventsOf("appointment.updated", calls[p].ap) : k < l
    /\ \A k \in 1..Len(events) : BookingCommitted(events[k].id)

\* C18: every rejection tells which check failed: NOT_FOUND for a missing
\* calendar, the duplicate error for an order that already has a scheduled
\* appointment, the slot-unavailable error for a window the validation does
\* not accept
C18_RejectionsAreTyped ==
    \A p \in Procs :
        LET c == calls[p] IN
        Done(c) /\ c.result # "ok" =>
            /\ c.calendar_id \notin Calendars <=> c.result = "NOT_FOUND calendar"
            /\ c.dupChecked /\ ~DurationResolved(c) <=> c.result = Conflict
            /\ c.fetched <=> c.result = "NOT_ALLOWED slot time not available"

----------------------------------------------------------------------------
(* Status changes *)

\* C20: an update that asks for a transition outside the transition table,
\* such as finished to scheduled, fails and leaves the status as it was: no
\* step takes an appointment from finished to scheduled
C20_FinishedIsNotRescheduled ==
    [][\A i \in 1..Len(appointments) :
        appointments[i].status = "finished" => appointments'[i].status # "scheduled"]_vars

----------------------------------------------------------------------------
(* What a booking writes *)

\* rejected at the calendar check, the duplicate check or the validation
RejectedAtACheck(c) ==
    /\ Done(c)
    /\ c.result \in {"NOT_FOUND calendar", Conflict, "NOT_ALLOWED slot time not available"}

StoreUnchanged ==
    appointments' = appointments /\ timeperiods' = timeperiods /\ events' = events

\* C21: a call rejected at the calendar check, the duplicate check or the
\* availability validation has created no Appointment and no Timeperiod, and
\* every step a call takes up to and including its checks leaves the
\* Appointments, the Timeperiods and the event log unchanged
C21_RejectedCallWritesNothing ==
    /\ [](\A p \in Procs : RejectedAtACheck(calls[p]) => calls[p].ap = 0 /\ calls[p].tp = 0)
    /\ [][\A p \in Procs :
            /\ calls'[p] # calls[p]
            /\ calls[p].pc \in {"idle", "done", "calendar", "duplicate", "duration", "slots"}
            => StoreUnchanged]_vars

C21_Witness ==
    \E p, q \in Procs :
        /\ SlotUnavailable(calls[p])
        /\ Scheduled(calls[q])
        /\ Len(events) = 2

\* C22: every Appointment is a draft with from and to null or is scheduled;
\* a scheduled one has from and to set and names, in
\* metadata.calendar_timeperiod_id, an existing Timeperiod of type blocked
\* with the same from and to whose metadata.appointment_id is its id
C22_ScheduledHasItsTimeperiod ==
    \A i \in 1..Len(appointments) :
        LET a == appointments[i] IN
        \/ /\ a.status = "draft"
           /\ a.from = Null /\ a.to = Null
        \/ /\ a.status = "scheduled"
           /\ a.from # Null /\ a.to # Null
           /\ a.calendar_timeperiod_id \in 1..Len(timeperiods)
           /\ timeperiods[a.calendar_timeperiod_id].type = "blocked"
           /\ timeperiods[a.calendar_timeperiod_id].from = a.from
           /\ timeperiods[a.calendar_timeperiod_id].to = a.to
           /\ timeperiods[a.calendar_timeperiod_id].appointment_id = i

C22_Witness ==
    /\ Len(appointments) = 2
    /\ appointments[1].status = "scheduled"
    /\ appointments[2].status = "draft"
    /\ appointments[1].from < appointments[1].to

----------------------------------------------------------------------------
(* The duplicate check *)

HasScheduled(apps, orderId) ==
    \E i \in 1..Len(apps) :
        ~apps[i].deleted /\ apps[i].order_id = orderId /\ apps[i].status = "scheduled"

\* C24: the duplicate check answers true exactly when the order has an
\* Appointment with status scheduled: appointments in other statuses do not
\* count, and an order with a scheduled appointment is always rejected
C24_OnlyScheduledCounts ==
    vout.done => (vout.result <=> HasScheduled(vin.apps, vin.order_id))

----------------------------------------------------------------------------
(* One calendar's bookings and the other calendars *)

\* the Timeperiods of the asked calendar alone
OwnTimeperiods == SelectSeq(vin.tps, LAMBDA x : x.calendar_id = vin.calendar_id)

----------------------------------------------------------------------------
(* Deleted and canceled appointments *)

\* the Timeperiods written by bookings
BookedTimeperiods == {i \in 1..Len(timeperiods) : timeperiods[i].appointment_id # 0}

Released(i) ==
    LET a == appointments[timeperiods[i].appointment_id]
    IN  a.deleted \/ a.status = "canceled"

\* the windows of the Timeperiods i and j are the same or overlap
SameOrOverlappingWindow(i, j) ==
    \/ Overlap(timeperiods[i].from, timeperiods[i].to, timeperiods[j].from, timeperiods[j].to)
    \/ timeperiods[i].from = timeperiods[j].from /\ timeperiods[i].to = timeperiods[j].to

\* C25: update and delete leave the Timeperiods alone, so the window of an
\* appointment that was deleted or set to canceled stays taken: with the
\* bookings made one after the other, no later booking on the calendar gets a
\* Timeperiod on the same or an overlapping window
C25_ReleasedWindowStaysTaken ==
    ~overlapped =>
        \A i, j \in BookedTimeperiods :
            /\ i < j
            /\ timeperiods[i].calendar_id = timeperiods[j].calendar_id
            /\ Released(i)
            => ~SameOrOverlappingWindow(i, j)

----------------------------------------------------------------------------
(* update and delete, call by call *)

\* the log after one more event
Emitted(name, id) == events' = Append(events, [name |-> name, id |-> id])

\* C26: an update of an appointment that is found sets exactly the keys the
\* update gives (a metadata key given replaces that key only), leaves every
\* other key and every other appointment as they were and emits
\* appointment.updated; an update of an id that names no appointment fails
\* with NOT_FOUND, changes nothing and emits nothing
C26_UpdateChangesTheGivenKeys ==
    [][vout'.op = "update" =>
        IF Found(appointments, vout'.id)
        THEN /\ vout'.result = "ok"
             /\ Len(appointments') = Len(appointments)
             /\ \A i \in 1..Len(appointments) :
                    i # vout'.id => appointments'[i] = appointments[i]
             /\ \A key \in DOMAIN appointments[vout'.id] :
                    appointments'[vout'.id][key] =
                        IF key \in DOMAIN vout'.upd THEN vout'.upd[key]
                        ELSE appointments[vout'.id][key]
             /\ Emitted("appointment.updated", vout'.id)
             /\ timeperiods' = timeperiods
        ELSE /\ vout'.result = "NOT_FOUND"
             /\ appointments' = appointments
             /\ events' = events
             /\ timeperiods' = timeperiods]_vars

\* an update of metadata.calendar_timeperiod_id alone on a booked appointment
\* with a location in its metadata, with a second appointment in the store
C26_Witness ==
    /\ vout.op = "update" /\ vout.result = "ok"
    /\ vout.upd = [calendar_timeperiod_id |-> 2]
    /\ Len(appointments) = 2
    /\ appointments[vout.id].calendar_timeperiod_id = 2
    /\ appointments[vout.id].location = "l1"

\* C27: delete of an id that names no appointment (or one already
\* soft-removed) succeeds, changes nothing and emits nothing; delete of an
\* appointment that exists soft-removes it and emits appointment.deleted
\* once; so no id ever has two appointment.deleted events
C27_DeleteEmitsOnce ==
    /\ [][vout'.op = "delete" =>
            /\ vout'.result = "ok"
            /\ timeperiods' = timeperiods
            /\ IF Found(appointments, vout'.id)
               THEN /\ appointments' = [appointments EXCEPT ![vout'.id].deleted = TRUE]
                    /\ Emitted("appointment.deleted", vout'.id)
               ELSE appointments' = appointments /\ events' = events]_vars
    /\ [](\A id \in ServiceIds : Cardinality(EventsOf("appointment.deleted", id)) <= 1)

\* the same id deleted twice in a row: the second delete found nothing, and
\* the log holds the one event of the first delete
C27_Witness ==
    /\ vout.op = "delete"
    /\ ~vout.found
    /\ Len(events) = 1
    /\ events[1] = [name |-> "appointment.deleted", id |-> vout.id]
    /\ appointments[vout.id].deleted

====
